---- MODULE Spec2Model ----
(***************************************************************************)
(* RobustSupabaseClient: the executor that races a remote operation        *)
(* against a timer, keeps a TTL cache of truthy results and falls back to  *)
(* a cached entry of any age when the operation fails.                     *)
(*                                                                         *)
(* Time is the value Date.now() returns, in milliseconds.  A call of       *)
(* executeWithFallback is an async function: its synchronous prefix (the   *)
(* fresh cache lookup and the start of the race) is one step, and the      *)
(* continuation after the await (store and return, or catch, fall back     *)
(* and rethrow) is another step, taken when the race settles.  `calls`     *)
(* is the bag of the calls suspended at the await (calls with the same     *)
(* arguments and timer are interchangeable).  `last` holds the step just   *)
(* taken and what it handed to its caller, until the caller has taken it   *)
(* (Continue): a caller resumes in a microtask, before the event loop      *)
(* runs another timer, settlement or call.  `abandoned` counts the         *)
(* operations whose race the timer won: nothing cancels them, they settle  *)
(* later with nobody awaiting them.                                        *)
(*                                                                         *)
(* SupabaseConnectionManager (the prober), activateUserSubscription (the   *)
(* seed run) and waitForSupabaseConnection have their own variables and    *)
(* their own specifications: SpecProber (and SpecSequential, with the      *)
(* prober's calls made one after another), SpecSeed and SpecWait.  Each    *)
(* specification leaves the variables of the other components as Init set  *)
(* them.                                                                   *)
(***************************************************************************)
EXTENDS Integers, Sequences, FiniteSets, Bags, TLC

\* ------------------------------------------------------------------ bounds
MaxCalls == 2
MaxTicks == 2

\* The number of getWorkingClient calls in a behaviour.
MaxProberCalls == 2

\* The number of getWorkingClient calls in a behaviour of calls made one
\* after another.
MaxSequentialCalls == 3

\* The number of activateUserSubscription runs in a behaviour.
MaxRuns == 3

\* The largest maxRetries waitForSupabaseConnection is called with.
MaxRetries == 4

\* ----------------------------------------------------------- JS values
\* A JavaScript value: its type and, per type, its number (number), its
\* length (string, array), its truth (boolean: 0/1) or its identity (object).
JSUndefined == [type |-> "undefined", n |-> 0]
JSNull == [type |-> "null", n |-> 0]
JSFalse == [type |-> "boolean", n |-> 0]
JSZero == [type |-> "number", n |-> 0]
JSEmptyString == [type |-> "string", n |-> 0]
JSEmptyArray == [type |-> "array", n |-> 0]
JSUserResult == [type |-> "object", n |-> 1]

\* The {data, error} pair of a query the remote side answered with an
\* error: {data: {user: null}, error: {...}}.
JSErrorResult == [type |-> "object", n |-> 2]

\* The results an operation can resolve with.
Results ==
    {JSUndefined, JSNull, JSFalse, JSZero, JSEmptyString,
     JSEmptyArray, JSUserResult, JSErrorResult}

\* The absence of a value in a record of the model.
NoValue == [type |-> "none", n |-> 0]

\* ToBoolean with a container's truth taken from its length.
ToBoolean_EmptyArrayFalsy(v) ==
    CASE v.type = "undefined" -> FALSE
      [] v.type = "null" -> FALSE
      [] v.type = "none" -> FALSE
      [] v.type = "boolean" -> v.n = 1
      [] v.type = "number" -> v.n # 0
      [] v.type = "string" -> v.n # 0
      [] v.type = "array" -> v.n # 0
      [] v.type = "object" -> TRUE

\* JavaScript's ToBoolean, as applied by `if (cached)` and `&& result`.
ToBoolean(v) ==
    CASE v.type = "undefined" -> FALSE
      [] v.type = "null" -> FALSE
      [] v.type = "none" -> FALSE
      [] v.type = "boolean" -> v.n = 1
      [] v.type = "number" -> v.n # 0
      [] v.type = "string" -> v.n # 0
      [] v.type = "array" -> TRUE
      [] v.type = "object" -> TRUE

\* ------------------------------------------------------------- errors
\* An Error object: the code that constructed it (its identity, as far as
\* a call can tell) and its message.
NoError == [origin |-> "none", message |-> ""]

\* The Error the race's timer rejects with.
TimeoutError == [origin |-> "timer", message |-> "Operation timeout"]

\* Messages of the Errors a wrapped operation rejects with.
OperationMessages == {"fetch failed", "Operation timeout"}

OperationError(m) == [origin |-> "operation", message |-> m]

\* ------------------------------------------------------ instance fields
CACHE_TTL == 5 * 60 * 1000

\* this.timeout: read by the race, declared and assigned nowhere.
timeout == JSUndefined

\* The delay setTimeout uses for its second argument: a number of at least
\* 1 is taken as it is, anything else (undefined, NaN, 0) becomes 1 ms.
SetTimeoutDelay(ms) ==
    IF ms.type = "number" /\ ms.n >= 1 THEN ms.n ELSE 1

\* ------------------------------------------------------------ arguments
\* The optional cacheKey argument: absent, or a string.
NoKey == [given |-> FALSE, str |-> ""]
Key(s) == [given |-> TRUE, str |-> s]
CacheKeys == {"user_1", "users_list_{}"}

\* Truthiness of the cacheKey argument in `useCache && cacheKey`.
KeyTruthy(k) == k.given /\ k.str # ""

\* The (cacheKey, useCache) pairs calls are made with: getUserById and
\* listUsers (key, true), the seed scripts (operation alone: undefined,
\* true), and a key with caching switched off.  createUser and
\* testConnection pass (undefined, false), which fails the guard
\* `useCache && cacheKey` on both counts; each count is here on its own.
Invocations ==
    {<<Key(s), TRUE>> : s \in CacheKeys}
        \cup {<<NoKey, TRUE>>, <<Key("user_1"), FALSE>>}

VARIABLES
    now,      \* Date.now()
    cache,    \* this.cache: a Map from key to {data, timestamp}
    calls,    \* the executeWithFallback calls suspended at the await
    last,     \* the step taken last and the call it started or completed
    abandoned,              \* the number of operations a timeout left running
    connectionHistory,      \* SupabaseConnectionManager.connectionHistory
    lastSuccessfulConfig,   \* SupabaseConnectionManager.lastSuccessfulConfig
    probing,                \* the getWorkingClient calls awaiting a probe
    started,                \* the number of getWorkingClient calls made
    plast,                  \* the prober's step taken last
    subscriptions,          \* active subscriptions of the seed user (remote)
    run,                    \* the activateUserSubscription run in progress
    runs,                   \* the number of runs started
    waiting                 \* the waitForSupabaseConnection call

executorVars == <<now, cache, calls, last, abandoned>>

proberVars == <<connectionHistory, lastSuccessfulConfig, probing, started, plast>>

seedVars == <<subscriptions, run, runs>>

waitVars == <<waiting>>

vars == <<executorVars, proberVars, seedVars, waitVars>>

NoOutcome == [kind |-> "none", value |-> NoValue, error |-> NoError]
Return(v) == [kind |-> "return", value |-> v, error |-> NoError]
Throw(e) == [kind |-> "throw", value |-> NoValue, error |-> e]

\* A call suspended at the await: its arguments and the time its timer is
\* due.
Racing(cacheKey, useCache, deadline) ==
    [cacheKey |-> cacheKey, useCache |-> useCache, deadline |-> deadline]

\* `last` for a step of a call: the step, the call's arguments, whether
\* operation() has been invoked, how the race settled, what the caller got,
\* and (replaced) the keys whose entry the step overwrote.
Step(op, cacheKey, useCache, invoked, settled, outcome) ==
    [op |-> op, cacheKey |-> cacheKey, useCache |-> useCache,
     invoked |-> invoked, settled |-> settled, outcome |-> outcome,
     deleted |-> {}, again |-> FALSE, replaced |-> {}]

\* `last` for a step that belongs to no call.
Other(op) == Step(op, NoKey, FALSE, FALSE, NoOutcome, NoOutcome)

\* `last` once the caller has taken what the step handed it.
Idle == Other("idle")

\* `last` for a run of clearExpiredCache: the keys it deleted, and whether
\* the step before it was a run of clearExpiredCache too.
Sweep(deleted, again) ==
    [Other("clearExpiredCache") EXCEPT !.deleted = deleted, !.again = again]

\* ---------------------------------------------------------------- cache
\* saveToCache that keeps the entry a key already has.
saveToCache_KeepsFirst(map, key, data) ==
    [k \in DOMAIN map \cup {key} |->
        IF k \in DOMAIN map THEN map[k] ELSE [data |-> data, timestamp |-> now]]

saveToCache(map, key, data) ==
    [k \in DOMAIN map \cup {key} |->
        IF k = key THEN [data |-> data, timestamp |-> now] ELSE map[k]]

\* isExpired with the comparison off by one: an entry aged exactly TTL expires.
isExpired_AtTTL(entry) == now - entry.timestamp >= CACHE_TTL

isExpired(entry) == now - entry.timestamp > CACHE_TTL

\* getFromCache with the expiry test inverted: fresh entries are dropped.
getFromCache_InvertedExpiry(key, ignoreTTL) ==
    IF key \notin DOMAIN cache THEN JSNull
    ELSE IF ~(now - cache[key].timestamp > CACHE_TTL) /\ ~ignoreTTL THEN JSNull
    ELSE cache[key].data

\* getFromCache that applies the TTL even when asked to ignore it.
getFromCache_AlwaysTTL(key, ignoreTTL) ==
    IF key \notin DOMAIN cache THEN JSNull
    ELSE IF now - cache[key].timestamp > CACHE_TTL THEN JSNull
    ELSE cache[key].data

getFromCache(key, ignoreTTL) ==
    IF key \notin DOMAIN cache THEN JSNull
    ELSE IF isExpired(cache[key]) /\ ~ignoreTTL THEN JSNull
    ELSE cache[key].data

\* The sweep's test off by one: an entry aged exactly TTL is deleted.
SweepDeletes_AtTTL(key) == now - cache[key].timestamp >= CACHE_TTL

\* The entries clearExpiredCache deletes.
SweepDeletes(key) == now - cache[key].timestamp > CACHE_TTL

\* ----------------------------------------------------------------- Init
ExecutorInit ==
    /\ now = 0
    /\ cache = [k \in {} |-> NoValue]
    /\ calls = EmptyBag
    /\ last = Idle
    /\ abandoned = 0

\* -------------------------------------------------------------- actions
\* The guard with useCache left out: a key alone switches caching on.
Caching_IgnoresUseCache(cacheKey, useCache) == KeyTruthy(cacheKey)

\* The guard `useCache && cacheKey`.
Caching(cacheKey, useCache) == useCache /\ KeyTruthy(cacheKey)

\* ExecuteStart that joins a call in flight for the same key instead of
\* invoking the operation again.
ExecuteStart_Dedup(cacheKey, useCache) ==
    /\ last = Idle
    /\ BagCardinality(calls) + abandoned < MaxCalls
    /\ LET cached == IF Caching(cacheKey, useCache)
                     THEN getFromCache(cacheKey.str, FALSE) ELSE JSNull
           joined == /\ Caching(cacheKey, useCache)
                     /\ \E c \in BagToSet(calls) :
                            c.useCache /\ c.cacheKey = cacheKey
       IN  IF Caching(cacheKey, useCache) /\ ToBoolean(cached)
           THEN /\ calls' = calls
                /\ last' = Step("executeWithFallback", cacheKey, useCache,
                                FALSE, NoOutcome, Return(cached))
           ELSE IF joined
           THEN /\ calls' = calls
                /\ last' = Step("executeWithFallback", cacheKey, useCache,
                                FALSE, NoOutcome, NoOutcome)
           ELSE /\ calls' = calls (+) SetToBag({Racing(cacheKey, useCache,
                                        now + SetTimeoutDelay(timeout))})
                /\ last' = Step("executeWithFallback", cacheKey, useCache,
                                TRUE, NoOutcome, NoOutcome)
    /\ UNCHANGED <<now, cache, abandoned, proberVars, seedVars, waitVars>>

\* executeWithFallback up to its await: the fresh lookup, then the race.
ExecuteStart(cacheKey, useCache) ==
    /\ last = Idle
    /\ BagCardinality(calls) + abandoned < MaxCalls
    /\ LET cached == IF Caching(cacheKey, useCache)
                     THEN getFromCache(cacheKey.str, FALSE) ELSE JSNull
       IN  IF Caching(cacheKey, useCache) /\ ToBoolean(cached)
           THEN /\ calls' = calls
                /\ last' = Step("executeWithFallback", cacheKey, useCache,
                                FALSE, NoOutcome, Return(cached))
           ELSE /\ calls' = calls (+) SetToBag({Racing(cacheKey, useCache,
                                        now + SetTimeoutDelay(timeout))})
                /\ last' = Step("executeWithFallback", cacheKey, useCache,
                                TRUE, NoOutcome, NoOutcome)
    /\ UNCHANGED <<now, cache, abandoned, proberVars, seedVars, waitVars>>

\* RaceResolved without the `&& result` test: every result is stored.
RaceResolved_StoresFalsy(call, result) ==
    /\ last = Idle
    /\ BagIn(call, calls)
    /\ cache' = IF call.useCache /\ KeyTruthy(call.cacheKey)
               THEN saveToCache(cache, call.cacheKey.str, result)
               ELSE cache
    /\ last' = [Step("resolved", call.cacheKey, call.useCache, TRUE,
                     Return(result), Return(result))
                    EXCEPT !.replaced = {k \in DOMAIN cache : cache'[k] # cache[k]}]
    /\ calls' = calls (-) SetToBag({call})
    /\ UNCHANGED <<now, abandoned, proberVars, seedVars, waitVars>>

\* A continuation that takes a pair carrying a remote error for a failure:
\* it stores nothing and throws.
RaceResolved_ThrowsRemoteError(call, result) ==
    /\ last = Idle
    /\ BagIn(call, calls)
    /\ cache' = IF /\ Caching(call.cacheKey, call.useCache)
                  /\ ToBoolean(result) /\ result # JSErrorResult
               THEN saveToCache(cache, call.cacheKey.str, result)
               ELSE cache
    /\ last' = [Step("resolved", call.cacheKey, call.useCache, TRUE,
                     Return(result),
                     IF result = JSErrorResult
                     THEN Throw(OperationError("fetch failed"))
                     ELSE Return(result))
                    EXCEPT !.replaced = {k \in DOMAIN cache : cache'[k] # cache[k]}]
    /\ calls' = calls (-) SetToBag({call})
    /\ UNCHANGED <<now, abandoned, proberVars, seedVars, waitVars>>

\* The continuation after the await when the operation's promise won.
RaceResolved(call, result) ==
    /\ last = Idle
    /\ BagIn(call, calls)
    /\ cache' = IF Caching(call.cacheKey, call.useCache) /\ ToBoolean(result)
               THEN saveToCache(cache, call.cacheKey.str, result)
               ELSE cache
    /\ last' = [Step("resolved", call.cacheKey, call.useCache, TRUE,
                     Return(result), Return(result))
                    EXCEPT !.replaced = {k \in DOMAIN cache : cache'[k] # cache[k]}]
    /\ calls' = calls (-) SetToBag({call})
    /\ UNCHANGED <<now, abandoned, proberVars, seedVars, waitVars>>

\* Catch that rethrows a new Error built from the caught one's message.
Catch_Wraps(call, error) ==
    LET cached == IF call.useCache /\ KeyTruthy(call.cacheKey)
                  THEN getFromCache(call.cacheKey.str, TRUE) ELSE JSNull
    IN  IF call.useCache /\ KeyTruthy(call.cacheKey) /\ ToBoolean(cached)
        THEN Return(cached)
        ELSE Throw([origin |-> "catch", message |-> error.message])

\* What the catch block does with the error it caught: fall back to the
\* entry of any age, else rethrow the error.
Catch(call, error) ==
    LET cached == IF Caching(call.cacheKey, call.useCache)
                  THEN getFromCache(call.cacheKey.str, TRUE) ELSE JSNull
    IN  IF Caching(call.cacheKey, call.useCache) /\ ToBoolean(cached)
        THEN Return(cached)
        ELSE Throw(error)

\* The operation's promise rejected first.
RaceRejected(call, message) ==
    /\ last = Idle
    /\ BagIn(call, calls)
    /\ last' = Step("rejected", call.cacheKey, call.useCache, TRUE,
                    Throw(OperationError(message)),
                    Catch(call, OperationError(message)))
    /\ calls' = calls (-) SetToBag({call})
    /\ UNCHANGED <<now, cache, abandoned, proberVars, seedVars, waitVars>>

\* The timer of the race fired first.
RaceTimeout(call) ==
    /\ last = Idle
    /\ BagIn(call, calls)
    /\ now >= call.deadline
    /\ last' = Step("timeout", call.cacheKey, call.useCache, TRUE,
                    Throw(TimeoutError), Catch(call, TimeoutError))
    /\ calls' = calls (-) SetToBag({call})
    /\ abandoned' = abandoned + 1
    /\ UNCHANGED <<now, cache, proberVars, seedVars, waitVars>>

\* An abandoned operation whose late result is handed to a caller and
\* stored under a key.
AbandonedResolved_Stores(result) ==
    /\ last = Idle
    /\ abandoned > 0
    /\ abandoned' = abandoned - 1
    /\ \E k \in CacheKeys :
        /\ cache' = IF ToBoolean(result) THEN saveToCache(cache, k, result)
                    ELSE cache
        /\ last' = Step("late", Key(k), TRUE, TRUE,
                        Return(result), Return(result))
    /\ UNCHANGED <<now, calls, proberVars, seedVars, waitVars>>

\* An abandoned operation resolves: the race is settled already, so the
\* continuation of its call does not run again.
AbandonedResolved(result) ==
    /\ last = Idle
    /\ abandoned > 0
    /\ abandoned' = abandoned - 1
    /\ last' = Step("late", NoKey, FALSE, TRUE, Return(result), NoOutcome)
    /\ UNCHANGED <<now, cache, calls, proberVars, seedVars, waitVars>>

\* An abandoned operation rejects: Promise.race holds a handler for it, so
\* the rejection is handled and dropped.
AbandonedRejected(message) ==
    /\ last = Idle
    /\ abandoned > 0
    /\ abandoned' = abandoned - 1
    /\ last' = Step("late", NoKey, FALSE, TRUE,
                    Throw(OperationError(message)), NoOutcome)
    /\ UNCHANGED <<now, cache, calls, proberVars, seedVars, waitVars>>

\* A sweep that stops at the first expired entry it deletes.
clearExpiredCache_OnePerRun ==
    /\ last.op \in {"idle", "clearExpiredCache"}
    /\ LET expired == {j \in DOMAIN cache : SweepDeletes(j)}
           victim == IF expired = {} THEN {} ELSE {CHOOSE j \in expired : TRUE}
       IN  /\ cache' = [k \in DOMAIN cache \ victim |-> cache[k]]
           /\ last' = Sweep(victim, last.op = "clearExpiredCache")
    /\ UNCHANGED <<now, calls, abandoned, proberVars, seedVars, waitVars>>

clearExpiredCache ==
    /\ last.op \in {"idle", "clearExpiredCache"}
    /\ cache' = [k \in {j \in DOMAIN cache : ~SweepDeletes(j)} |-> cache[k]]
    /\ last' = Sweep({j \in DOMAIN cache : SweepDeletes(j)},
                     last.op = "clearExpiredCache")
    /\ UNCHANGED <<now, calls, abandoned, proberVars, seedVars, waitVars>>

\* The clock advances by d ms; a timer that is due fires before it does.
TickSteps == {1, CACHE_TTL}

Tick(d) ==
    /\ last = Idle
    /\ (now % CACHE_TTL) + (now \div CACHE_TTL) < MaxTicks
    /\ \A call \in BagToSet(calls) : now + d <= call.deadline
    /\ now' = now + d
    /\ UNCHANGED <<cache, calls, last, abandoned, proberVars, seedVars, waitVars>>

\* The caller of the step just taken resumes with what it was handed.
Continue ==
    /\ last # Idle
    /\ last' = Idle
    /\ UNCHANGED <<now, cache, calls, abandoned, proberVars, seedVars, waitVars>>

\* ------------------------------------------- SupabaseConnectionManager
\* The candidate list of getWorkingClient, by the candidates' names.
configurations ==
    <<"Fast timeout", "Medium timeout with keep-alive",
      "Long timeout basic", "Default configuration">>

\* lastSuccessfulConfig = null.
NullConfig == "null"

\* A message, as the sequence of its words; the absent message is <<>>.
NoMessage == <<>>
NoUsers == <<"No", "users">>
NoUsersFound == <<"AuthApiError:", "No", "users", "found">>
InvalidApiKey == <<"Invalid", "API", "key">>
FetchFailed == <<"fetch", "failed">>
AllFailed == <<"Todas", "as", "configuracoes", "de", "conexao", "falharam">>

\* String.prototype.includes, word by word.
includes(message, part) ==
    \E i \in 1..(Len(message) - Len(part) + 1) :
        SubSeq(message, i, i + Len(part) - 1) = part

\* Date.now() - startTime of a probe that got a response, in ms.
Latencies == {2}

\* How the listUsers request of a probe settles: it resolves with
\* {error: null}, resolves with {error: {message}}, or rejects (and then
\* no latency is computed).
ProbeResponses ==
    [thrown : {FALSE}, message : {NoMessage, NoUsersFound, InvalidApiKey},
     latency : Latencies]
        \cup [thrown : {TRUE}, message : {FetchFailed}, latency : {0}]

\* testConnection's test with the exemption dropped: every error response
\* fails the probe.
ProbeThrows_NoExemption(response) ==
    \/ response.thrown
    \/ response.message # NoMessage

\* testConnection throws: the request rejected, or
\* `error && !error.message.includes('No users')`.
ProbeThrows(response) ==
    \/ response.thrown
    \/ response.message # NoMessage /\ ~includes(response.message, NoUsers)

\* An entry of connectionHistory: a ConnectionAttempt.
Attempt(success, latency, error) ==
    [success |-> success, latency |-> latency, error |-> error]

\* The length connectionHistory is cut back to.
HistoryLimit == 10

\* recordAttempt without the cut: the history grows without limit.
recordAttempt_NoLimit(history, success, latency, error) ==
    Append(history, Attempt(success, latency, error))

recordAttempt(history, success, latency, error) ==
    LET pushed == Append(history, Attempt(success, latency, error))
    IN  IF Len(pushed) > HistoryLimit THEN Tail(pushed) ELSE pushed

\* A getWorkingClient call suspended at `await this.testConnection(client)`:
\* the configuration its client was built from, whether that is the
\* remembered one, its index in the candidate list, and how many probes the
\* call has run and how many attempts it has recorded so far.
Probing(config, remembered, index, probes, appended) ==
    [config |-> config, remembered |-> remembered, index |-> index,
     probes |-> probes, appended |-> appended]

\* A JavaScript number: a ratio, NaN being 0/0.
Number(num, den) == [num |-> num, den |-> den]
NaN == Number(0, 0)
IsNaN(x) == x.num = 0 /\ x.den = 0

\* a / b for integers a >= 0, b >= 0.
Divide(a, b) == Number(a, b)

\* x || 0: NaN and 0 are falsy.
OrZero(x) == IF x.num = 0 THEN Number(0, 1) ELSE x

\* Math.round: the integer nearest to x, halves upwards.
MathRound(x) ==
    IF x.den = 0 THEN x ELSE Number((2 * x.num + x.den) \div (2 * x.den), 1)

RECURSIVE SumLatency(_)
SumLatency(attempts) ==
    IF attempts = <<>> THEN 0
    ELSE Head(attempts).latency + SumLatency(Tail(attempts))

\* getConnectionStats with the average left as the division yields it.
getConnectionStats_NoOrZero(history) ==
    LET total == Len(history)
        succeeded == SelectSeq(history, LAMBDA a : a.success)
        successful == Len(succeeded)
        avgLatency == Divide(SumLatency(succeeded), successful)
    IN  [total |-> total,
         successful |-> successful,
         successRate |-> IF total > 0 THEN Divide(successful * 100, total)
                         ELSE Number(0, 1),
         averageLatency |-> MathRound(avgLatency)]

getConnectionStats(history) ==
    LET total == Len(history)
        succeeded == SelectSeq(history, LAMBDA a : a.success)
        successful == Len(succeeded)
        avgLatency == OrZero(Divide(SumLatency(succeeded), successful))
    IN  [total |-> total,
         successful |-> successful,
         successRate |-> IF total > 0 THEN Divide(successful * 100, total)
                         ELSE Number(0, 1),
         averageLatency |-> MathRound(avgLatency)]

NoStats == [total |-> 0, successful |-> 0, successRate |-> NaN,
            averageLatency |-> NaN]

NoResponse == [thrown |-> FALSE, message |-> NoMessage, latency |-> 0]

\* `plast` for a step of the prober: the step; the call as it stood before
\* the step (NoProbing for a call that starts); the response the step
\* received; the configuration the step's call went on to probe ("" when
\* none); the client the call returned, by the configuration it was built
\* from ("" when none); the message of the error the call threw; and the
\* statistics a getConnectionStats step returned.
NoProbing == Probing("", FALSE, 0, 0, 0)

ProberStep(op, call, response, next, client, thrown, stats) ==
    [op |-> op, call |-> call, response |-> response, next |-> next,
     client |-> client, thrown |-> thrown, stats |-> stats]

ProberIdle ==
    ProberStep("idle", NoProbing, NoResponse, "", "", NoMessage, NoStats)

ProberInit ==
    /\ connectionHistory = <<>>
    /\ lastSuccessfulConfig = NullConfig
    /\ probing = EmptyBag
    /\ started = 0
    /\ plast = ProberIdle

\* getWorkingClient that goes to the candidate list at once.
getWorkingClient_SkipsRemembered ==
    /\ plast = ProberIdle
    /\ started' = started + 1
    /\ LET call == Probing(configurations[1], FALSE, 1, 1, 0)
       IN  /\ probing' = probing (+) SetToBag({call})
           /\ plast' = ProberStep("getWorkingClient", NoProbing, NoResponse,
                                  call.config, "", NoMessage, NoStats)
    /\ UNCHANGED <<connectionHistory, lastSuccessfulConfig, executorVars, seedVars, waitVars>>

\* getWorkingClient up to its first await: the remembered configuration is
\* probed if there is one, else the first candidate.
getWorkingClient ==
    /\ plast = ProberIdle
    /\ started' = started + 1
    /\ LET call == IF lastSuccessfulConfig # NullConfig
                   THEN Probing(lastSuccessfulConfig, TRUE, 0, 1, 0)
                   ELSE Probing(configurations[1], FALSE, 1, 1, 0)
       IN  /\ probing' = probing (+) SetToBag({call})
           /\ plast' = ProberStep("getWorkingClient", NoProbing, NoResponse,
                                  call.config, "", NoMessage, NoStats)
    /\ UNCHANGED <<connectionHistory, lastSuccessfulConfig, executorVars, seedVars, waitVars>>

\* A successful probe after which the candidate is not remembered.
ProbeSucceeded_ForgetsConfig(call, response) ==
    /\ plast = ProberIdle
    /\ BagIn(call, probing)
    /\ ~ProbeThrows(response)
    /\ connectionHistory' =
           recordAttempt(connectionHistory, TRUE, response.latency, NoMessage)
    /\ lastSuccessfulConfig' = lastSuccessfulConfig
    /\ probing' = probing (-) SetToBag({call})
    /\ plast' = ProberStep("probeSucceeded", call, response, "",
                           call.config, NoMessage, NoStats)
    /\ UNCHANGED <<started, executorVars, seedVars, waitVars>>

\* A successful probe that leaves a configuration already remembered in
\* place: the first writer wins.
ProbeSucceeded_FirstWriterWins(call, response) ==
    /\ plast = ProberIdle
    /\ BagIn(call, probing)
    /\ ~ProbeThrows(response)
    /\ connectionHistory' =
           recordAttempt(connectionHistory, TRUE, response.latency, NoMessage)
    /\ lastSuccessfulConfig' =
           IF call.remembered \/ lastSuccessfulConfig # NullConfig
           THEN lastSuccessfulConfig ELSE call.config
    /\ probing' = probing (-) SetToBag({call})
    /\ plast' = ProberStep("probeSucceeded", call, response, "",
                           call.config, NoMessage, NoStats)
    /\ UNCHANGED <<started, executorVars, seedVars, waitVars>>

\* The probe a call awaits succeeded: testConnection records the attempt,
\* and the call returns its client, remembering a candidate's configuration.
ProbeSucceeded(call, response) ==
    /\ plast = ProberIdle
    /\ BagIn(call, probing)
    /\ ~ProbeThrows(response)
    /\ connectionHistory' =
           recordAttempt(connectionHistory, TRUE, response.latency, NoMessage)
    /\ lastSuccessfulConfig' =
           IF call.remembered THEN lastSuccessfulConfig ELSE call.config
    /\ probing' = probing (-) SetToBag({call})
    /\ plast' = ProberStep("probeSucceeded", call, response, "",
                           call.config, NoMessage, NoStats)
    /\ UNCHANGED <<started, executorVars, seedVars, waitVars>>

\* The message of the error testConnection throws.
ProbeError(response) == response.message

\* A failed probe of the remembered configuration that forgets it.
RememberedProbeFailed_Forgets(call, response) ==
    /\ plast = ProberIdle
    /\ BagIn(call, probing)
    /\ call.remembered
    /\ ProbeThrows(response)
    /\ lastSuccessfulConfig' = NullConfig
    /\ probing' = (probing (-) SetToBag({call})) (+)
           SetToBag({Probing(configurations[1], FALSE, 1,
                             call.probes + 1, call.appended)})
    /\ plast' = ProberStep("rememberedProbeFailed", call, response,
                           configurations[1], "", NoMessage, NoStats)
    /\ UNCHANGED <<connectionHistory, started, executorVars, seedVars, waitVars>>

\* A failed probe of the remembered configuration that is recorded in the
\* history like a candidate's.
RememberedProbeFailed_Records(call, response) ==
    /\ plast = ProberIdle
    /\ BagIn(call, probing)
    /\ call.remembered
    /\ ProbeThrows(response)
    /\ connectionHistory' =
           recordAttempt(connectionHistory, FALSE, 0, response.message)
    /\ probing' = (probing (-) SetToBag({call})) (+)
           SetToBag({Probing(configurations[1], FALSE, 1,
                             call.probes + 1, call.appended)})
    /\ plast' = ProberStep("rememberedProbeFailed", call, response,
                           configurations[1], "", NoMessage, NoStats)
    /\ UNCHANGED <<lastSuccessfulConfig, started, executorVars, seedVars, waitVars>>

\* The probe of the remembered configuration failed: the catch logs it and
\* the candidate loop starts.
RememberedProbeFailed(call, response) ==
    /\ plast = ProberIdle
    /\ BagIn(call, probing)
    /\ call.remembered
    /\ ProbeThrows(response)
    /\ probing' = (probing (-) SetToBag({call})) (+)
           SetToBag({Probing(configurations[1], FALSE, 1,
                             call.probes + 1, call.appended)})
    /\ plast' = ProberStep("rememberedProbeFailed", call, response,
                           configurations[1], "", NoMessage, NoStats)
    /\ UNCHANGED <<connectionHistory, lastSuccessfulConfig, started,
                   executorVars, seedVars, waitVars>>

\* A candidate's probe that fails without a record in the history.
CandidateProbeFailed_NoRecord(call, response) ==
    /\ plast = ProberIdle
    /\ BagIn(call, probing)
    /\ ~call.remembered
    /\ ProbeThrows(response)
    /\ connectionHistory' = connectionHistory
    /\ IF call.index < Len(configurations)
       THEN /\ probing' = (probing (-) SetToBag({call})) (+)
                  SetToBag({Probing(configurations[call.index + 1], FALSE,
                                    call.index + 1, call.probes + 1,
                                    call.appended)})
            /\ plast' = ProberStep("candidateProbeFailed", call, response,
                                   configurations[call.index + 1], "",
                                   NoMessage, NoStats)
       ELSE /\ probing' = probing (-) SetToBag({call})
            /\ plast' = ProberStep("candidateProbeFailed", call, response,
                                   "", "", AllFailed, NoStats)
    /\ UNCHANGED <<lastSuccessfulConfig, started, executorVars, seedVars, waitVars>>

\* A candidate's probe failed: the catch records a failed attempt with
\* latency 0, and the loop probes the next candidate or, after the last,
\* the call throws.
CandidateProbeFailed(call, response) ==
    /\ plast = ProberIdle
    /\ BagIn(call, probing)
    /\ ~call.remembered
    /\ ProbeThrows(response)
    /\ connectionHistory' =
           recordAttempt(connectionHistory, FALSE, 0, ProbeError(response))
    /\ IF call.index < Len(configurations)
       THEN /\ probing' = (probing (-) SetToBag({call})) (+)
                  SetToBag({Probing(configurations[call.index + 1], FALSE,
                                    call.index + 1, call.probes + 1,
                                    call.appended + 1)})
            /\ plast' = ProberStep("candidateProbeFailed", call, response,
                                   configurations[call.index + 1], "",
                                   NoMessage, NoStats)
       ELSE /\ probing' = probing (-) SetToBag({call})
            /\ plast' = ProberStep("candidateProbeFailed", call, response,
                                   "", "", AllFailed, NoStats)
    /\ UNCHANGED <<lastSuccessfulConfig, started, executorVars, seedVars, waitVars>>

\* A call of getConnectionStats.
ConnectionStats ==
    /\ plast = ProberIdle
    /\ plast' = ProberStep("getConnectionStats", NoProbing, NoResponse, "", "",
                           NoMessage, getConnectionStats(connectionHistory))
    /\ UNCHANGED <<connectionHistory, lastSuccessfulConfig, probing, started,
                   executorVars, seedVars, waitVars>>

\* The caller of the prober's step just taken resumes.
ProberContinue ==
    /\ plast # ProberIdle
    /\ plast' = ProberIdle
    /\ UNCHANGED <<connectionHistory, lastSuccessfulConfig, probing, started,
                   executorVars, seedVars, waitVars>>

NextProber ==
    \/ started < MaxProberCalls /\ getWorkingClient
    \/ \E call \in BagToSet(probing), r \in ProbeResponses : ProbeSucceeded(call, r)
    \/ \E call \in BagToSet(probing), r \in ProbeResponses : RememberedProbeFailed(call, r)
    \/ \E call \in BagToSet(probing), r \in ProbeResponses : CandidateProbeFailed(call, r)
    \/ ConnectionStats
    \/ ProberContinue

\* The prober with its calls made one after another and every probe
\* answered, with no error or with an error of the remote side: the
\* behaviours in which the history fills up.
SequentialResponses ==
    {r \in ProbeResponses : ~r.thrown /\ r.message \in {NoMessage, InvalidApiKey}}

NextSequential ==
    \/ started < MaxSequentialCalls /\ probing = EmptyBag /\ getWorkingClient
    \/ \E call \in BagToSet(probing), r \in SequentialResponses : ProbeSucceeded(call, r)
    \/ \E call \in BagToSet(probing), r \in SequentialResponses : RememberedProbeFailed(call, r)
    \/ \E call \in BagToSet(probing), r \in SequentialResponses : CandidateProbeFailed(call, r)
    \/ ProberContinue

\* --------------------------------------------- activateUserSubscription
\* Each await of the run is an executeWithFallback call with an operation
\* alone: no key, so nothing is cached and a failed race is thrown on.  The
\* call resolves with the query's {data, error} pair or throws.  A select
\* answers "rows" (data holds the matching rows, error is null), "error"
\* (data is null, error is set) or "throw"; the products and prices tables
\* belong to the remote side, so whether a matching row exists is an input
\* ("rows" or "none").
SelectResponses == {"rows", "none", "error", "throw"}

\* An insert answers "ok" (the row exists, data holds it), "error" (no row)
\* or "throw"; a call that threw on its timer has abandoned a request that
\* may still insert the row.
InsertResponses == {"ok", "error", "throw", "throw after insert"}

\* The select of the seed user's active subscriptions answers with the
\* rows there are (possibly none), with an error, or the call throws.
CheckResponses == {"rows", "error", "throw"}

\* A run: the await it is suspended at ("none" when no run is in progress),
\* how it came by its product and price, how the last run ended, and whether
\* the run logged the warning about subError.
Run(pc, product, price, result) ==
    [pc |-> pc, product |-> product, price |-> price, result |-> result,
     warned |-> FALSE]

SeedInit ==
    /\ subscriptions = 0
    /\ run = Run("none", "none", "none", "none")
    /\ runs = 0

\* activateUserSubscription up to its first await: the select of the seed
\* user's active subscriptions.
activateUserSubscription ==
    /\ run.pc = "none"
    /\ runs < MaxRuns
    /\ runs' = runs + 1
    /\ run' = Run("checkSubscription", "none", "none", "none")
    /\ UNCHANGED <<subscriptions, executorVars, proberVars, waitVars>>

\* The select of active subscriptions settled: subError is logged only;
\* the run returns the first row if there is one and goes on otherwise.
SubscriptionChecked(response) ==
    /\ run.pc = "checkSubscription"
    /\ response \in CheckResponses
    /\ run' = IF response = "throw"
              THEN Run("none", "none", "none", "threw")
              ELSE IF response = "rows" /\ subscriptions > 0
              THEN Run("none", "none", "none", "existing")
              ELSE [run EXCEPT !.pc = "findProduct",
                               !.warned = (response = "error")]
    /\ UNCHANGED <<subscriptions, runs, executorVars, proberVars, waitVars>>

\* The select of the PRO product settled.
ProductFound(response) ==
    /\ run.pc = "findProduct"
    /\ response \in SelectResponses
    /\ run' = IF response = "throw"
              THEN Run("none", "none", "none", "threw")
              ELSE IF response = "rows"
              THEN [run EXCEPT !.pc = "findPrice", !.product = "found"]
              ELSE [run EXCEPT !.pc = "createProduct"]
    /\ UNCHANGED <<subscriptions, runs, executorVars, proberVars, waitVars>>

\* The insert of the PRO product settled.
ProductCreated(response) ==
    /\ run.pc = "createProduct"
    /\ response \in InsertResponses
    /\ run' = IF response = "ok"
              THEN [run EXCEPT !.pc = "findPrice", !.product = "created"]
              ELSE Run("none", "none", "none", "threw")
    /\ UNCHANGED <<subscriptions, runs, executorVars, proberVars, waitVars>>

\* The select of the product's price settled.
PriceFound(response) ==
    /\ run.pc = "findPrice"
    /\ response \in SelectResponses
    /\ run' = IF response = "throw"
              THEN Run("none", "none", "none", "threw")
              ELSE IF response = "rows"
              THEN [run EXCEPT !.pc = "insertSubscription", !.price = "found"]
              ELSE [run EXCEPT !.pc = "createPrice"]
    /\ UNCHANGED <<subscriptions, runs, executorVars, proberVars, waitVars>>

\* The insert of the price settled; the run goes on to start the insert of
\* the subscription.
PriceCreated(response) ==
    /\ run.pc = "createPrice"
    /\ response \in InsertResponses
    /\ run' = IF response = "ok"
              THEN [run EXCEPT !.pc = "insertSubscription", !.price = "created"]
              ELSE Run("none", "none", "none", "threw")
    /\ UNCHANGED <<subscriptions, runs, executorVars, proberVars, waitVars>>

\* The insert of the active subscription, under a fresh id, settled.
SubscriptionInserted(response) ==
    /\ run.pc = "insertSubscription"
    /\ response \in InsertResponses
    /\ subscriptions' = IF response \in {"ok", "throw after insert"}
                        THEN subscriptions + 1 ELSE subscriptions
    /\ run' = IF response = "ok"
              THEN [run EXCEPT !.pc = "none", !.result = "created"]
              ELSE [run EXCEPT !.pc = "none", !.result = "threw"]
    /\ UNCHANGED <<runs, executorVars, proberVars, waitVars>>

NextSeed ==
    \/ activateUserSubscription
    \/ \E r \in CheckResponses : SubscriptionChecked(r)
    \/ \E r \in SelectResponses : ProductFound(r)
    \/ \E r \in InsertResponses : ProductCreated(r)
    \/ \E r \in SelectResponses : PriceFound(r)
    \/ \E r \in InsertResponses : PriceCreated(r)
    \/ \E r \in InsertResponses : SubscriptionInserted(r)

\* ------------------------------------------- waitForSupabaseConnection
\* How the race of checkSupabaseHealth settles: the query resolves, the
\* query rejects with an Error (its message possibly empty), or the timer
\* rejects.
HealthRaces == {"resolved", "fetch failed", "", "Connection timeout"}

\* checkSupabaseHealth: healthy when the race resolves; else unhealthy with
\* `error.message || 'Unknown connection error'`.  (The latency it also
\* returns is only logged.)
checkSupabaseHealth(race) ==
    IF race = "resolved" THEN [isHealthy |-> TRUE, error |-> ""]
    ELSE [isHealthy |-> FALSE,
          error |-> IF race = "" THEN "Unknown connection error" ELSE race]

NoHealth == [isHealthy |-> FALSE, error |-> ""]

RECURSIVE MathPow2(_)
MathPow2(n) == IF n <= 0 THEN 1 ELSE 2 * MathPow2(n - 1)

\* The delay with the attempt number as the factor.
BackoffDelay_Linear(baseDelay, attempt) == baseDelay * attempt

\* baseDelay * Math.pow(2, attempt - 1).
BackoffDelay(baseDelay, attempt) == baseDelay * MathPow2(attempt - 1)

\* The arguments calls are made with: maxRetries from -1 up, baseDelay the
\* default of 1000 ms or 250 ms.
RetryCounts == (0 - 1)..MaxRetries
BaseDelays == {250, 1000}

\* A call: where it stands ("none": not called; "checking": awaiting
\* checkSupabaseHealth; "delaying": awaiting the timer; "returned";
\* "threw"), its arguments, the loop variable, the health checks started,
\* the delays its timers were set to, and the last health it got.
Waiting(pc, maxRetries, baseDelay, attempt, checks, delays, health) ==
    [pc |-> pc, maxRetries |-> maxRetries, baseDelay |-> baseDelay,
     attempt |-> attempt, checks |-> checks, delays |-> delays,
     health |-> health]

WaitInit == waiting = Waiting("none", 0, 0, 0, 0, <<>>, NoHealth)

\* A loop that runs its body before it tests: one check at least.
waitForSupabaseConnection_ChecksFirst(maxRetries, baseDelay) ==
    /\ waiting.pc \in {"none", "returned", "threw"}
    /\ waiting' = Waiting("checking", maxRetries, baseDelay, 1, 1, <<>>, NoHealth)
    /\ UNCHANGED <<executorVars, proberVars, seedVars>>

\* waitForSupabaseConnection up to its first await: the loop test with
\* attempt = 1, then the first health check, or the end of the function.
waitForSupabaseConnection(maxRetries, baseDelay) ==
    /\ waiting.pc \in {"none", "returned", "threw"}
    /\ waiting' = IF 1 <= maxRetries
                  THEN Waiting("checking", maxRetries, baseDelay, 1, 1, <<>>,
                               NoHealth)
                  ELSE Waiting("returned", maxRetries, baseDelay, 1, 0, <<>>,
                               NoHealth)
    /\ UNCHANGED <<executorVars, proberVars, seedVars>>

\* The health check settled: return when healthy, throw after the last
\* attempt, else set the timer.
HealthChecked(race) ==
    /\ waiting.pc = "checking"
    /\ LET health == checkSupabaseHealth(race)
       IN  waiting' =
             IF health.isHealthy
             THEN [waiting EXCEPT !.pc = "returned", !.health = health]
             ELSE IF waiting.attempt = waiting.maxRetries
             THEN [waiting EXCEPT !.pc = "threw", !.health = health]
             ELSE [waiting EXCEPT
                      !.pc = "delaying", !.health = health,
                      !.delays = Append(@, BackoffDelay(waiting.baseDelay,
                                                        waiting.attempt))]
    /\ UNCHANGED <<executorVars, proberVars, seedVars>>

\* The timer fired: attempt++, the loop test, and the next health check or
\* the end of the function.
DelayElapsed ==
    /\ waiting.pc = "delaying"
    /\ waiting' =
         IF waiting.attempt + 1 <= waiting.maxRetries
         THEN [waiting EXCEPT !.pc = "checking", !.attempt = @ + 1,
                              !.checks = @ + 1]
         ELSE [waiting EXCEPT !.pc = "returned", !.attempt = @ + 1]
    /\ UNCHANGED <<executorVars, proberVars, seedVars>>

NextWait ==
    \/ \E m \in RetryCounts, b \in BaseDelays : waitForSupabaseConnection(m, b)
    \/ \E r \in HealthRaces : HealthChecked(r)
    \/ DelayElapsed

Init == ExecutorInit /\ ProberInit /\ SeedInit /\ WaitInit

Next ==
    \/ \E i \in Invocations : ExecuteStart(i[1], i[2])
    \/ \E call \in BagToSet(calls), r \in Results : RaceResolved(call, r)
    \/ \E call \in BagToSet(calls), m \in OperationMessages : RaceRejected(call, m)
    \/ \E call \in BagToSet(calls) : RaceTimeout(call)
    \/ \E r \in Results : AbandonedResolved(r)
    \/ \E m \in OperationMessages : AbandonedRejected(m)
    \/ clearExpiredCache
    \/ \E d \in TickSteps : Tick(d)
    \/ Continue

Spec == Init /\ [][Next]_vars

SpecProber == Init /\ [][NextProber]_vars

SpecSequential == Init /\ [][NextSequential]_vars

SpecSeed == Init /\ [][NextSeed]_vars

SpecWait == Init /\ [][NextWait]_vars

\* ------------------------------------------------------------ properties

\* C1: a truthy result of a caching call with key k is stored under k with
\* the time of the store; the entry stays as it is, while its age is at
\* most TTL, until another such store for k replaces it; and a caching call
\* with key k that starts while the entry's age is at most TTL returns the
\* entry's value without invoking its operation.
C1_FreshEntryServesLaterCalls ==
    [][/\ (/\ last'.op = "resolved"
           /\ last'.useCache /\ last'.cacheKey.given /\ last'.cacheKey.str # ""
           /\ ToBoolean(last'.settled.value))
          => /\ last'.cacheKey.str \in DOMAIN cache'
             /\ cache'[last'.cacheKey.str] =
                    [data |-> last'.settled.value, timestamp |-> now']
       /\ \A k \in DOMAIN cache :
            (/\ now' - cache[k].timestamp <= CACHE_TTL
             /\ ~(/\ last'.op = "resolved" /\ last'.useCache
                  /\ last'.cacheKey = Key(k)
                  /\ ToBoolean(last'.settled.value)))
            => k \in DOMAIN cache' /\ cache'[k] = cache[k]
       /\ \A k \in DOMAIN cache :
            (/\ last'.op = "executeWithFallback"
             /\ last'.useCache /\ last'.cacheKey = Key(k)
             /\ now - cache[k].timestamp <= CACHE_TTL)
            => /\ last'.outcome = Return(cache[k].data)
               /\ ~last'.invoked
               /\ calls' = calls
      ]_vars

\* A call was served the entry of its key, stored at an earlier time.
C1_Witness ==
    /\ last.op = "executeWithFallback" /\ ~last.invoked
    /\ last.cacheKey.str \in DOMAIN cache
    /\ last.outcome = Return(cache[last.cacheKey.str].data)
    /\ ToBoolean(last.outcome.value)
    /\ now - cache[last.cacheKey.str].timestamp >= 1
    /\ now - cache[last.cacheKey.str].timestamp <= CACHE_TTL

\* C2: a caching call with key k is a cache hit (no operation invoked)
\* exactly when an entry for k exists with now - storedAt <= TTL; with an
\* entry older than TTL, or none, it invokes its operation.
C2_FreshIffAgeAtMostTTL ==
    (/\ last.op = "executeWithFallback"
     /\ last.useCache /\ last.cacheKey.given /\ last.cacheKey.str # "")
    => (~last.invoked <=>
            /\ last.cacheKey.str \in DOMAIN cache
            /\ now - cache[last.cacheKey.str].timestamp <= CACHE_TTL)

\* A call invoked its operation although an entry, older than TTL, exists.
C2_Witness ==
    /\ last.op = "executeWithFallback" /\ last.invoked /\ last.useCache
    /\ last.cacheKey.str \in DOMAIN cache
    /\ now - cache[last.cacheKey.str].timestamp > CACHE_TTL

\* C3: when the race of a caching call with key k ends in a rejection or a
\* timeout and the map holds an entry for k, of whatever age, the call
\* returns that entry's value and throws nothing.
C3_FailureFallsBackToAnyEntry ==
    (/\ last.op \in {"rejected", "timeout"}
     /\ last.useCache /\ last.cacheKey.given /\ last.cacheKey.str # ""
     /\ last.cacheKey.str \in DOMAIN cache)
    => /\ last.settled.kind = "throw"
       /\ last.outcome = Return(cache[last.cacheKey.str].data)

\* A rejected operation was answered with an entry older than TTL.
C3_Witness ==
    /\ last.op = "rejected" /\ last.outcome.kind = "return"
    /\ last.cacheKey.str \in DOMAIN cache
    /\ last.outcome.value = cache[last.cacheKey.str].data
    /\ now - cache[last.cacheKey.str].timestamp > CACHE_TTL

\* C4: when the race ends in a rejection or a timeout and there is no entry
\* to fall back to (caching off, no key, or no entry for the key), the call
\* throws the very Error object the race rejected with.
C4_ErrorPropagatesUnchanged ==
    (/\ last.op \in {"rejected", "timeout"}
     /\ \/ ~last.useCache
        \/ ~last.cacheKey.given
        \/ last.cacheKey.str \notin DOMAIN cache)
    => /\ last.settled.kind = "throw"
       /\ last.outcome.kind = "throw"
       /\ last.outcome.error = last.settled.error
       /\ last.outcome.error.origin =
              (IF last.op = "timeout" THEN "timer" ELSE "operation")

\* A caching call with a key and no entry rethrew its operation's error.
C4_Witness ==
    /\ last.op = "rejected" /\ last.useCache /\ last.cacheKey.given
    /\ last.cacheKey.str \notin DOMAIN cache
    /\ last.outcome.kind = "throw"
    /\ last.outcome.error.origin = "operation"

\* C5: a falsy result is returned to the caller and leaves the cache as it
\* was; every value in the cache is truthy; and a caching call whose key has
\* no entry invokes its operation.
C5_FalsyResultsAreNotCached ==
    [][/\ (last'.op = "resolved" /\ ~ToBoolean(last'.settled.value))
          => /\ cache' = cache
             /\ last'.outcome = Return(last'.settled.value)
       /\ \A k \in DOMAIN cache' : ToBoolean(cache'[k].data)
       /\ (/\ last'.op = "executeWithFallback"
           /\ last'.cacheKey.str \notin DOMAIN cache)
          => last'.invoked
      ]_vars

\* A caching call with a key got the number 0 back and nothing was stored.
C5_Witness ==
    /\ last.op = "resolved" /\ last.useCache /\ last.cacheKey.given
    /\ last.settled.value = JSZero
    /\ last.outcome = Return(JSZero)
    /\ last.cacheKey.str \notin DOMAIN cache

\* C6, as claimed: an empty list that an operation resolved with is never
\* written to the cache.
C6_EmptyListNeverCached ==
    \A k \in DOMAIN cache : cache[k].data # JSEmptyArray

\* C6, amended: an empty list is truthy, so a caching call with key k that
\* resolves with it stores it under k, and a caching call with key k that
\* starts while that entry's age is at most TTL returns the empty list
\* without invoking its operation.
C6_EmptyListIsCached ==
    [][/\ (/\ last'.op = "resolved"
           /\ last'.useCache /\ last'.cacheKey.given /\ last'.cacheKey.str # ""
           /\ last'.settled.value = JSEmptyArray)
          => /\ last'.cacheKey.str \in DOMAIN cache'
             /\ cache'[last'.cacheKey.str] =
                    [data |-> JSEmptyArray, timestamp |-> now']
       /\ \A k \in DOMAIN cache :
            (/\ last'.op = "executeWithFallback"
             /\ last'.useCache /\ last'.cacheKey = Key(k)
             /\ cache[k].data = JSEmptyArray
             /\ now - cache[k].timestamp <= CACHE_TTL)
            => ~last'.invoked /\ last'.outcome = Return(JSEmptyArray)
      ]_vars

\* A call was served a cached empty list.
C6_Witness ==
    /\ last.op = "executeWithFallback" /\ ~last.invoked
    /\ last.outcome = Return(JSEmptyArray)
    /\ last.cacheKey.str \in DOMAIN cache
    /\ cache[last.cacheKey.str].data = JSEmptyArray

\* C7: the timer of every race runs for the duration configured in the
\* instance, this.timeout, a number of milliseconds; a timeout is raised
\* only after that duration.
C7_TimerRunsForConfiguredTimeout ==
    /\ \A call \in BagToSet(calls) :
            timeout.type = "number" /\ call.deadline <= now + timeout.n
    /\ last.op = "timeout" => timeout.type = "number"

\* C8: an error thrown because the operation rejected never reads like the
\* error thrown because the timer fired (both are plain Errors, told apart
\* by their message alone).
C8_TimeoutErrorIsDistinguishable ==
    (last.op = "rejected" /\ last.outcome.kind = "throw")
    => last.outcome.error.message # TimeoutError.message

\* C9: a run of clearExpiredCache deletes exactly the entries whose age
\* exceeds TTL, which are the entries a fresh read returns nothing for, and
\* leaves every other entry with its value and timestamp.
C9_SweepRemovesExactlyExpired ==
    [][last'.op = "clearExpiredCache"
       => /\ \A k \in DOMAIN cache :
                /\ k \notin DOMAIN cache' <=> now - cache[k].timestamp > CACHE_TTL
                /\ k \notin DOMAIN cache' <=> getFromCache(k, FALSE) = JSNull
                /\ k \in last'.deleted <=> k \notin DOMAIN cache'
          /\ DOMAIN cache' \subseteq DOMAIN cache
          /\ \A k \in DOMAIN cache' : cache'[k] = cache[k]
          /\ now' = now
      ]_vars

\* A sweep deleted an entry and kept one whose age is exactly TTL.
C9_Witness ==
    /\ last.op = "clearExpiredCache" /\ last.deleted # {}
    /\ \E k \in DOMAIN cache : now - cache[k].timestamp = CACHE_TTL

\* C10: a run of clearExpiredCache that directly follows another run
\* deletes nothing and leaves the map as the first run left it.
C10_SweepTwiceIsIdempotent ==
    [][(last.op = "clearExpiredCache" /\ last'.op = "clearExpiredCache")
       => cache' = cache /\ last'.deleted = {} /\ last'.again
      ]_vars

\* A second run in a row, on a map the sweeps have left one entry in.
C10_Witness ==
    /\ last.op = "clearExpiredCache" /\ last.again /\ last.deleted = {}
    /\ DOMAIN cache # {} /\ DOMAIN cache # CacheKeys

\* C16: every value a call resolves with is real data: neither null nor
\* undefined, and either what the call's own operation resolved with or the
\* value stored in the cache under the call's own key.
C16_ResolvesWithRealData ==
    last.outcome.kind = "return"
    => /\ last.outcome.value \notin {JSNull, JSUndefined}
       /\ \/ last.op = "resolved" /\ last.outcome.value = last.settled.value
          \/ /\ last.cacheKey.str \in DOMAIN cache
             /\ last.outcome.value = cache[last.cacheKey.str].data

\* C18: a truthy result of a caching call with key k puts under k the
\* result stamped with the time of the write, whatever entry k had, and
\* touches no other key; no other step writes an entry, so the entry of k
\* is always that of the latest such store for k.
C18_StoreOverwritesEntry ==
    [][IF /\ last'.op = "resolved"
          /\ Caching(last'.cacheKey, last'.useCache)
          /\ ToBoolean(last'.settled.value)
       THEN /\ DOMAIN cache' = DOMAIN cache \cup {last'.cacheKey.str}
            /\ cache'[last'.cacheKey.str] =
                   [data |-> last'.settled.value, timestamp |-> now']
            /\ \A j \in DOMAIN cache \ {last'.cacheKey.str} :
                   cache'[j] = cache[j]
       ELSE /\ DOMAIN cache' \subseteq DOMAIN cache
            /\ \A j \in DOMAIN cache' : cache'[j] = cache[j]
      ]_vars

\* A store replaced an older entry that held another value.
C18_Witness ==
    /\ last.op = "resolved" /\ last.replaced = {last.cacheKey.str}
    /\ cache[last.cacheKey.str] =
           [data |-> last.settled.value, timestamp |-> now]
    /\ now > CACHE_TTL

\* C19: a caching call with key k that finds no fresh entry invokes its
\* operation and joins the calls in flight even while another call with
\* key k is in flight; and each call in flight that resolves with a truthy
\* result writes the entry of k, so the entry left is that of the call that
\* resolved last.
C19_NoDeduplicationLastWriterWins ==
    [][/\ (/\ last'.op = "executeWithFallback"
           /\ Caching(last'.cacheKey, last'.useCache)
           /\ \E c \in BagToSet(calls) : c.cacheKey = last'.cacheKey
           /\ ~ToBoolean(getFromCache(last'.cacheKey.str, FALSE)))
          => /\ last'.invoked
             /\ BagCardinality(calls') = BagCardinality(calls) + 1
       /\ (/\ last'.op = "resolved"
           /\ Caching(last'.cacheKey, last'.useCache)
           /\ ToBoolean(last'.settled.value))
          => /\ cache'[last'.cacheKey.str] =
                    [data |-> last'.settled.value, timestamp |-> now']
             /\ last'.outcome = Return(last'.settled.value)
      ]_vars

\* Two calls with one key were in flight together: before the clock moved,
\* the second to resolve replaced what the first had stored.
C19_Witness ==
    /\ last.op = "resolved" /\ last.replaced = {last.cacheKey.str}
    /\ now = 0
    /\ cache[last.cacheKey.str].data = last.settled.value

\* C20: when an operation abandoned by a timeout settles, nothing happens:
\* no caller is handed its result or its error, the cache, the calls in
\* flight and the clock stay as they are.
C20_LateSettlementIsDiscarded ==
    [][/\ last'.op = "timeout" => abandoned' = abandoned + 1
       /\ last'.op = "late"
          => /\ last.op = "idle"
             /\ abandoned' = abandoned - 1
             /\ last'.outcome = NoOutcome
             /\ cache' = cache
             /\ calls' = calls
             /\ now' = now
      ]_vars

\* An abandoned operation resolved with a user record that went nowhere.
C20_Witness ==
    /\ last.op = "late" /\ last.settled = Return(JSUserResult)
    /\ last.outcome = NoOutcome
    /\ \A k \in DOMAIN cache : cache[k].data # JSUserResult

\* C11: a call made while a configuration is remembered probes that
\* configuration first; when that probe succeeds the call returns the
\* client built from it, having run one probe and none of a candidate, and
\* probes nothing further.
C11_RememberedSuccessReturnsAtOnce ==
    [][/\ (plast'.op = "getWorkingClient" /\ lastSuccessfulConfig # NullConfig)
          => /\ plast'.next = lastSuccessfulConfig
             /\ BagIn(Probing(lastSuccessfulConfig, TRUE, 0, 1, 0), probing')
       /\ (plast'.op = "probeSucceeded" /\ plast'.call.remembered)
          => /\ plast'.client = plast'.call.config
             /\ plast'.call.probes = 1 /\ plast'.call.index = 0
             /\ plast'.next = ""
             /\ probing' = probing (-) SetToBag({plast'.call})
             /\ lastSuccessfulConfig' = lastSuccessfulConfig
      ]_vars

\* The second call's probe of the remembered configuration succeeded.
C11_Witness ==
    /\ plast.op = "probeSucceeded" /\ plast.call.remembered
    /\ plast.client = lastSuccessfulConfig
    /\ started = 2 /\ probing = EmptyBag

\* C12: with nothing remembered, or after the remembered configuration's
\* probe failed, the call probes the first candidate; after candidate i
\* failed it probes candidate i+1; and when candidate i succeeds, having
\* been reached through the candidates before it, it is remembered, its
\* client is returned and nothing further is probed.
C12_CandidatesInOrderFirstSuccessWins ==
    [][/\ (plast'.op = "getWorkingClient" /\ lastSuccessfulConfig = NullConfig)
          => plast'.next = configurations[1]
       /\ plast'.op = "rememberedProbeFailed"
          => /\ plast'.next = configurations[1]
             /\ BagIn(Probing(configurations[1], FALSE, 1, 2, 0), probing')
       /\ (/\ plast'.op = "candidateProbeFailed"
           /\ plast'.call.index < Len(configurations))
          => plast'.next = configurations[plast'.call.index + 1]
       /\ (plast'.op = "probeSucceeded" /\ ~plast'.call.remembered)
          => /\ plast'.call.config = configurations[plast'.call.index]
             /\ plast'.call.appended = plast'.call.index - 1
             /\ plast'.call.probes - plast'.call.index \in {0, 1}
             /\ lastSuccessfulConfig' = plast'.call.config
             /\ plast'.client = plast'.call.config
             /\ plast'.next = ""
             /\ probing' = probing (-) SetToBag({plast'.call})
      ]_vars

\* After the remembered configuration and the first two candidates failed,
\* the third candidate succeeded and replaced the remembered one.
C12_Witness ==
    /\ plast.op = "probeSucceeded" /\ plast.call.index = 3
    /\ plast.call.probes = 4
    /\ lastSuccessfulConfig = "Long timeout basic"
    /\ plast.client = "Long timeout basic"

\* C13: when the last candidate's probe fails, the call throws the
\* all-configurations-failed error, returns no client, probes nothing
\* further, is not started again, and has appended one failed attempt per
\* candidate: N in all.
C13_AllFailedIsTerminal ==
    [][/\ (/\ plast'.op = "candidateProbeFailed"
           /\ plast'.call.index = Len(configurations))
          => /\ plast'.thrown = AllFailed
             /\ plast'.client = "" /\ plast'.next = ""
             /\ probing' = probing (-) SetToBag({plast'.call})
             /\ started' = started
             /\ plast'.call.appended + 1 = Len(configurations)
             /\ connectionHistory' # <<>>
             /\ ~connectionHistory'[Len(connectionHistory')].success
             /\ lastSuccessfulConfig' = lastSuccessfulConfig
       /\ plast'.op = "candidateProbeFailed"
          => /\ connectionHistory' =
                    recordAttempt(connectionHistory, FALSE, 0,
                                  plast'.response.message)
             /\ plast'.call.appended = plast'.call.index - 1
       /\ plast'.thrown # NoMessage
          => /\ plast'.op = "candidateProbeFailed"
             /\ plast'.call.index = Len(configurations)
      ]_vars

\* A call that started from a remembered configuration ran through all the
\* candidates and threw.
C13_Witness ==
    /\ plast.op = "candidateProbeFailed" /\ plast.thrown = AllFailed
    /\ plast.call.probes = Len(configurations) + 1
    /\ plast.call.appended = Len(configurations) - 1
    /\ Len(connectionHistory) >= Len(configurations)

\* C14: the statistics hold no NaN; on the empty history they are total 0,
\* successful 0, successRate 0, averageLatency 0; on a history without a
\* successful attempt averageLatency is 0.
C14_StatsWithoutNaN ==
    plast.op = "getConnectionStats"
    => /\ ~IsNaN(plast.stats.successRate)
       /\ ~IsNaN(plast.stats.averageLatency)
       /\ plast.stats.successRate.den # 0
       /\ plast.stats.averageLatency.den = 1
       /\ plast.stats.total = Len(connectionHistory)
       /\ connectionHistory = <<>>
          => plast.stats = [total |-> 0, successful |-> 0,
                            successRate |-> Number(0, 1),
                            averageLatency |-> Number(0, 1)]
       /\ (\A i \in 1..Len(connectionHistory) : ~connectionHistory[i].success)
          => /\ plast.stats.successful = 0
             /\ plast.stats.averageLatency = Number(0, 1)

\* Statistics of a history that holds failed attempts only.
C14_Witness ==
    /\ plast.op = "getConnectionStats"
    /\ Len(connectionHistory) >= 2
    /\ \A i \in 1..Len(connectionHistory) : ~connectionHistory[i].success
    /\ plast.stats.averageLatency = Number(0, 1)
    /\ plast.stats.total = Len(connectionHistory)

\* C15: a probe answered with an error whose message says there are no
\* users succeeds: a successful attempt is recorded and the call returns
\* the client of the probed configuration; a probe answered with any other
\* error fails.
C15_NoUsersResponseIsSuccess ==
    [][/\ (/\ plast'.response.message # NoMessage
           /\ ~plast'.response.thrown
           /\ includes(plast'.response.message, NoUsers))
          => /\ plast'.op = "probeSucceeded"
             /\ connectionHistory' =
                    recordAttempt(connectionHistory, TRUE,
                                  plast'.response.latency, NoMessage)
             /\ plast'.client = plast'.call.config
             /\ lastSuccessfulConfig' \in {lastSuccessfulConfig, plast'.call.config}
       /\ (/\ plast'.response.message # NoMessage
           /\ ~includes(plast'.response.message, NoUsers))
          => /\ plast'.op \in {"rememberedProbeFailed", "candidateProbeFailed"}
             /\ plast'.client = ""
             /\ lastSuccessfulConfig' = lastSuccessfulConfig
      ]_vars

\* A candidate was accepted on a no-users response.
C15_Witness ==
    /\ plast.op = "probeSucceeded"
    /\ plast.response.message = NoUsersFound
    /\ ~plast.call.remembered
    /\ lastSuccessfulConfig = plast.call.config
    /\ connectionHistory[Len(connectionHistory)].success

\* C17: a run inserts an active subscription for the seed user only when
\* the seed user has none, so the seed user never has more than one.
C17_InsertsOnlyWhenNoneActive ==
    [][subscriptions' > subscriptions => subscriptions = 0]_vars

\* C21: a run of clearExpiredCache leaves what every call in flight will
\* return as it was: whatever error the call's race ends with, the catch
\* block gives the caller after the sweep what it would have given before.
C21_SweepLeavesOutcomesUnchanged ==
    [][last'.op = "clearExpiredCache"
       => \A call \in BagToSet(calls) :
            /\ Catch(call, TimeoutError)' = Catch(call, TimeoutError)
            /\ \A m \in OperationMessages :
                 Catch(call, OperationError(m))' = Catch(call, OperationError(m))
      ]_vars

\* C22: a call with useCache = false or without a key invokes its
\* operation whatever the cache holds, gets the race's own result or error
\* (no entry is read for a hit or a fallback), and leaves the cache as it
\* was.
C22_NonCachingCallsBypassCache ==
    [][(/\ last'.op \in {"executeWithFallback", "resolved", "rejected", "timeout"}
        /\ (~last'.useCache \/ ~last'.cacheKey.given))
       => /\ cache' = cache
          /\ last'.invoked
          /\ last'.op = "executeWithFallback"
             => /\ last'.outcome = NoOutcome
                /\ BagCardinality(calls') = BagCardinality(calls) + 1
          /\ last'.op # "executeWithFallback"
             => last'.outcome = last'.settled
      ]_vars

\* A call with a key and useCache = false threw its operation's error
\* although the map holds an entry under that key.
C22_Witness ==
    /\ last.op = "rejected" /\ ~last.useCache
    /\ last.cacheKey.given /\ last.cacheKey.str \in DOMAIN cache
    /\ last.outcome = Throw(last.settled.error)

\* C27: a {data, error} pair that carries a remote error is a result like
\* any other: the call returns it, a caching call with key k stores it
\* under k, and a caching call with key k that starts while that entry's
\* age is at most TTL returns the pair without invoking its operation.
C27_RemoteErrorIsASuccess ==
    [][/\ (last'.op = "resolved" /\ last'.settled.value = JSErrorResult)
          => /\ last'.outcome = Return(JSErrorResult)
             /\ Caching(last'.cacheKey, last'.useCache)
                => /\ last'.cacheKey.str \in DOMAIN cache'
                   /\ cache'[last'.cacheKey.str] =
                          [data |-> JSErrorResult, timestamp |-> now']
       /\ \A k \in DOMAIN cache :
            (/\ last'.op = "executeWithFallback"
             /\ last'.useCache /\ last'.cacheKey = Key(k)
             /\ cache[k].data = JSErrorResult
             /\ now - cache[k].timestamp <= CACHE_TTL)
            => ~last'.invoked /\ last'.outcome = Return(JSErrorResult)
      ]_vars

\* A call was served a cached pair that carries a remote error, stored
\* earlier.
C27_Witness ==
    /\ last.op = "executeWithFallback" /\ ~last.invoked
    /\ last.outcome = Return(JSErrorResult)
    /\ last.cacheKey.str \in DOMAIN cache
    /\ cache[last.cacheKey.str].data = JSErrorResult
    /\ now > cache[last.cacheKey.str].timestamp

\* C23: a candidate's probe that fails is recorded, before the next
\* candidate is probed, as a failed attempt that carries the latency of
\* that probe and the message of its error.
C23_FailedProbeRecordedWithLatency ==
    [][plast'.op = "candidateProbeFailed"
       => /\ connectionHistory' # <<>>
          /\ connectionHistory'[Len(connectionHistory')] =
                 Attempt(FALSE, plast'.response.latency, plast'.response.message)
      ]_vars

\* C24: the history never holds more than 10 attempts; an attempt is
\* recorded at the end, after the attempts recorded before it; and when 10
\* are held the oldest is dropped and the other 9 stay, in their order, in
\* front of the new one.
C24_HistoryIsCappedAtTen ==
    [][/\ Len(connectionHistory') <= 10
       /\ connectionHistory' # connectionHistory
          => IF Len(connectionHistory) < 10
             THEN /\ Len(connectionHistory') = Len(connectionHistory) + 1
                  /\ SubSeq(connectionHistory', 1, Len(connectionHistory)) =
                         connectionHistory
             ELSE /\ Len(connectionHistory') = 10
                  /\ SubSeq(connectionHistory', 1, 9) = Tail(connectionHistory)
       /\ plast'.op \in {"probeSucceeded", "candidateProbeFailed"}
          => connectionHistory' # connectionHistory \/ Len(connectionHistory) = 10
      ]_vars

\* The third of three calls that failed on every candidate recorded its
\* last attempt: 12 recorded, 10 held.
C24_Witness ==
    /\ plast.op = "candidateProbeFailed" /\ plast.thrown = AllFailed
    /\ started = 3
    /\ Len(connectionHistory) = 10
    /\ \A i \in 1..10 : ~connectionHistory[i].success

\* C25: the remembered configuration changes only when a candidate's probe
\* succeeds, and then to that candidate, a configuration of the list; once
\* set it is never null again, whether its own probe fails or every
\* candidate fails.
C25_RememberedConfigOnlySetBySuccess ==
    [][/\ lastSuccessfulConfig' # lastSuccessfulConfig
          => /\ plast'.op = "probeSucceeded" /\ ~plast'.call.remembered
             /\ lastSuccessfulConfig' = plast'.call.config
       /\ (plast'.op = "probeSucceeded" /\ ~plast'.call.remembered)
          => lastSuccessfulConfig' = configurations[plast'.call.index]
       /\ lastSuccessfulConfig # NullConfig => lastSuccessfulConfig' # NullConfig
       /\ lastSuccessfulConfig' # NullConfig
          => \E i \in 1..Len(configurations) :
                lastSuccessfulConfig' = configurations[i]
      ]_vars

\* The remembered configuration outlived the failure of its own probe and
\* of every candidate.
C25_Witness ==
    /\ plast.op = "candidateProbeFailed" /\ plast.thrown = AllFailed
    /\ plast.call.probes = Len(configurations) + 1
    /\ lastSuccessfulConfig # NullConfig

\* C26: whatever another call has stored in the meantime, a call whose
\* candidate's probe succeeds stores that candidate, so the slot holds the
\* configuration of the successful candidate probe that resumed last; and
\* every attempt is recorded at the end of the history, behind the attempts
\* of all calls recorded before it, under the cap of 10.
C26_LastWriterWins ==
    [][/\ (plast'.op = "probeSucceeded" /\ ~plast'.call.remembered)
          => lastSuccessfulConfig' = plast'.call.config
       /\ plast'.op \notin {"probeSucceeded"}
          => lastSuccessfulConfig' = lastSuccessfulConfig
       /\ plast'.op = "probeSucceeded"
          => connectionHistory' =
                 recordAttempt(connectionHistory, TRUE,
                               plast'.response.latency, NoMessage)
       /\ plast'.op = "candidateProbeFailed"
          => /\ connectionHistory' # <<>>
             /\ ~connectionHistory'[Len(connectionHistory')].success
             /\ connectionHistory'[Len(connectionHistory')].error =
                    plast'.response.message
       /\ Len(connectionHistory') <= HistoryLimit
      ]_vars

\* Two calls started with nothing remembered.  One failed on the first
\* candidate and succeeded on the second; then the other's probe of the
\* first candidate succeeded and replaced what the first call had stored.
C26_Witness ==
    /\ plast.op = "probeSucceeded" /\ ~plast.call.remembered
    /\ plast.call.index = 1 /\ plast.call.probes = 1
    /\ started = 2 /\ probing = EmptyBag
    /\ lastSuccessfulConfig = configurations[1]
    /\ Len(connectionHistory) = 3
    /\ ~connectionHistory[1].success
    /\ connectionHistory[2].success
    /\ connectionHistory[3].success

\* C28: a failed probe of the remembered configuration records nothing and
\* leaves the remembered configuration as it is; the call goes on with the
\* first candidate; every probe that settles ends the call or is followed
\* by the next candidate's, so a call runs at most N+1 probes and ends,
\* after the last, with a client or with the terminal error.
C28_AtMostNPlusOneProbes ==
    [][/\ plast'.op = "rememberedProbeFailed"
          => /\ connectionHistory' = connectionHistory
             /\ lastSuccessfulConfig' = lastSuccessfulConfig
             /\ plast'.next = configurations[1]
             /\ plast'.call.probes = 1
             /\ probing' = (probing (-) SetToBag({plast'.call})) (+)
                    SetToBag({Probing(configurations[1], FALSE, 1, 2, 0)})
       /\ \A c \in BagToSet(probing') :
            /\ c.probes <= Len(configurations) + 1
            /\ c.probes - c.index \in {0, 1}
            /\ c.index <= Len(configurations)
       /\ plast'.op \in {"probeSucceeded", "rememberedProbeFailed",
                         "candidateProbeFailed"}
          => \/ /\ plast'.client # "" /\ plast'.thrown = NoMessage
                /\ BagCardinality(probing') = BagCardinality(probing) - 1
             \/ /\ plast'.thrown = AllFailed /\ plast'.client = ""
                /\ plast'.call.index = Len(configurations)
                /\ BagCardinality(probing') = BagCardinality(probing) - 1
             \/ /\ plast'.client = "" /\ plast'.thrown = NoMessage
                /\ plast'.call.index < Len(configurations)
                /\ BagIn([plast'.call EXCEPT
                             !.config = configurations[plast'.call.index + 1],
                             !.remembered = FALSE,
                             !.index = plast'.call.index + 1,
                             !.probes = plast'.call.probes + 1,
                             !.appended = IF plast'.call.remembered
                                          THEN 0 ELSE plast'.call.appended + 1],
                         probing')
      ]_vars

\* A call whose probe of the remembered configuration failed ran N more
\* probes and returned the client of the last candidate.
C28_Witness ==
    /\ plast.op = "probeSucceeded"
    /\ plast.call.index = Len(configurations)
    /\ plast.call.probes = Len(configurations) + 1
    /\ plast.client = configurations[Len(configurations)]

\* C29: a call with maxRetries >= 1 starts with a health check; a healthy
\* check ends it with a return and no further check; unhealthy attempt
\* number a < maxRetries sets the timer to baseDelay * 2^(a-1) and is
\* followed by check a+1; unhealthy attempt number maxRetries throws at
\* once, after exactly maxRetries checks; and no call runs more than
\* maxRetries checks.
C29_BackoffRetriesUpToMaxRetries ==
    [][waiting'.maxRetries >= 1
       => /\ waiting'.checks <= waiting'.maxRetries
          /\ waiting'.checks = waiting'.attempt
          /\ waiting'.pc = "checking" => waiting'.checks = Len(waiting'.delays) + 1
          /\ (waiting.pc \in {"none", "returned", "threw"} /\ waiting' # waiting)
             => /\ waiting'.pc = "checking"
                /\ waiting'.checks = 1 /\ waiting'.delays = <<>>
          /\ (waiting.pc = "checking" /\ waiting'.health.isHealthy)
             => /\ waiting'.pc = "returned"
                /\ waiting'.checks = waiting.checks
                /\ waiting'.delays = waiting.delays
          /\ (/\ waiting.pc = "checking" /\ ~waiting'.health.isHealthy
              /\ waiting.attempt < waiting.maxRetries)
             => /\ waiting'.pc = "delaying"
                /\ waiting'.checks = waiting.checks
                /\ Len(waiting'.delays) = waiting.attempt
                /\ waiting'.delays[waiting.attempt] =
                       waiting.baseDelay * (2 ^ (waiting.attempt - 1))
                /\ SubSeq(waiting'.delays, 1, waiting.attempt - 1) = waiting.delays
          /\ (/\ waiting.pc = "checking" /\ ~waiting'.health.isHealthy
              /\ waiting.attempt >= waiting.maxRetries)
             => /\ waiting'.pc = "threw"
                /\ waiting'.checks = waiting.maxRetries
                /\ waiting'.delays = waiting.delays
          /\ waiting.pc = "delaying"
             => /\ waiting'.pc = "checking"
                /\ waiting'.checks = waiting.checks + 1
                /\ waiting'.delays = waiting.delays
      ]_vars

\* A call with maxRetries = 4 threw after four unhealthy checks and the
\* delays 1000, 2000 and 4000.
C29_Witness ==
    /\ waiting.pc = "threw" /\ waiting.maxRetries = 4
    /\ waiting.checks = 4
    /\ waiting.delays = <<1000, 2000, 4000>>
    /\ ~waiting.health.isHealthy

\* C30: a call with maxRetries <= 0 returns at once, as a call that found
\* the connection healthy does, having run no health check and set no
\* timer.
C30_NoRetriesResolvesUnchecked ==
    [][(/\ waiting.pc \in {"none", "returned", "threw"}
        /\ waiting' # waiting
        /\ waiting'.maxRetries <= 0)
       => /\ waiting'.pc = "returned"
          /\ waiting'.checks = 0
          /\ waiting'.delays = <<>>
          /\ waiting'.health = NoHealth
      ]_vars

\* A call with maxRetries = -1 returned without a check.
C30_Witness ==
    /\ waiting.pc = "returned" /\ waiting.maxRetries = 0 - 1
    /\ waiting.checks = 0 /\ waiting.health = NoHealth

====
